---- MODULE Spec2Model ----
(***************************************************************************)
(* Model of the music cog (cogs/music.py): the per-guild player session,   *)
(* its wait-queue, the command handlers and the audio-node event           *)
(* listeners.                                                              *)
(*                                                                         *)
(* Scheduling: one cooperative event loop.  A handler runs without         *)
(* interruption until it awaits I/O that really suspends: the HTTP search  *)
(* of get_tracks, the HTTP reply of ctx.send, the wait-queue future of     *)
(* get_wait and the guard of max_concurrency.  One action is one such      *)
(* uninterrupted stretch.  Frames written to the node or gateway websocket *)
(* (channel.connect of a node player, player.play, player.stop,            *)
(* player.disconnect) complete within the stretch that issues them.        *)
(*                                                                         *)
(* The 300-second timeout of the track-end listener is a timer that may    *)
(* fire at any moment the listener is suspended inside the timeout block.  *)
(*                                                                         *)
(* Every guild is followed through one session lifetime: Idle, Connected   *)
(* (playing when current is a track), Disconnected.                        *)
(***************************************************************************)
EXTENDS Integers, Sequences, FiniteSets

\* ---- bounds of the model
NumGuilds == 2
MaxPlays == 2
MaxCmds == 1
MaxPlaylist == 3
MaxLen == 3
NumTitles == 2
TraceSlack == 7

\* ---- constants of the program
\* the longest traceback that is put into the log embed itself
TraceLimit == 4000

Guilds == 1..NumGuilds
Plays == 1..MaxPlays
Cmds == 1..MaxCmds
\* every enqueued track of a session gets the next identifier
MaxTracks == MaxPlays * MaxPlaylist
TrackIds == 1..MaxTracks
\* user-supplied positions, including zero, negative and too large ones
Positions == (0 - MaxLen - 1)..(MaxLen + 2)
None == 0

VARIABLES
    conn,       \* conn[g]: "Idle" (no voice client), "Connected", "Disconnected"
    current,    \* current[g]: the player's current track, None when nothing plays
    queue,      \* queue[g]: player.queue, front first
    waiters,    \* waiters[g]: the wait-queue's pending get_wait futures, oldest first
    hpc,        \* hpc[g][t]: the track-end listener started by the end of track t
    hwoke,      \* hwoke[g][t]: that listener's future was resolved by an enqueue
    guard,      \* guard[g]: the play invocation holding the guild's max_concurrency slot
    play,       \* play[p]: one invocation of the play command
    cmd,        \* cmd[c]: one invocation of disconnect, skip, clear, remove or move
    nextId,     \* nextId[g]: identifier of the next track enqueued in g
    started,    \* started[g]: the tracks passed to player.play, in order
    tampered,   \* tampered[g]: an element left the queue other than by get
    call,       \* the latest queue command: its arguments, the queue it found, its reply
    err         \* the command error handed to cog_command_error and what became of it

vars == <<conn, current, queue, waiters, hpc, hwoke, guard, play, cmd, nextId,
          started, tampered, call, err>>

\* ---------------------------------------------------------------- the wait-queue
\* Python sequence indexing: i is valid when -len <= i < len
PyValid(q, i) == (0 - Len(q)) <= i /\ i <= Len(q) - 1

\* the 1-based place a valid Python index names
PyPlace(q, i) == IF i < 0 THEN i + Len(q) + 1 ELSE i + 1

\* queue[i]
GetItem(q, i) == q[PyPlace(q, i)]

\* del queue[i]
DelItem(q, i) ==
    LET k == PyPlace(q, i)
    IN  SubSeq(q, 1, k - 1) \o SubSeq(q, k + 1, Len(q))

\* queue.put_at_index(i, x): deque.insert, which clamps the index
PutAtIndex(q, i, x) ==
    LET n == Len(q)
        k == IF i >= n THEN n
             ELSE IF i >= 0 THEN i
             ELSE IF i + n < 0 THEN 0 ELSE i + n
    IN  SubSeq(q, 1, k) \o <<x>> \o SubSeq(q, k + 1, n)

\* (variant) move that inserts at `to` instead of `to - 1`
MoveQueueOffByOne(q, from, to) ==
    PutAtIndex(DelItem(q, from - 1), to, GetItem(q, from - 1))

\* (variant) a range check of remove that lets index 0 through
RemoveRejectsFromZero(q, index) == index < 0 \/ index > Len(q)

\* (variant) remove that deletes queue[index] instead of queue[index - 1]
RemoveQueueOffByOne(q, index) == DelItem(q, IF index < Len(q) THEN index ELSE 0)

\* the try block of move: both subscripts raise no IndexError
MoveAccepts(q, from, to) == PyValid(q, from - 1) /\ PyValid(q, to - 1)

\* the queue after move(from, to) got past the try block
MoveQueue(q, from, to) ==
    PutAtIndex(DelItem(q, from - 1), to - 1, GetItem(q, from - 1))

\* the range check of remove
RemoveRejects(q, index) == index < 1 \/ index > Len(q)

\* the queue after remove(index) got past the range check
RemoveQueue(q, index) == DelItem(q, index - 1)

Range(s) == {s[i] : i \in 1..Len(s)}

\* the identifiers first .. first+n-1 in order
IdSeq(first, n) == [i \in 1..n |-> first + i - 1]

\* ---------------------------------------------------------------- the player
\* player.is_playing()
IsPlaying(g) == conn[g] = "Connected" /\ current[g] # None

IdlePlay == [pc |-> "idle", g |-> None, fresh |-> FALSE, first |-> None, n |-> 0,
             out |-> "none"]
IdleCmd == [pc |-> "idle", g |-> None, kind |-> "none", reply |-> "none",
            item |-> None]
NoCall == [op |-> "none", g |-> None, a |-> 0, b |-> 0, before |-> <<>>,
           reply |-> "none", item |-> None]
NoError == [kind |-> "none", trace |-> 0, inGuild |-> TRUE, handled |-> FALSE,
            caller |-> 0, operator |-> 0, inline |-> FALSE, file |-> FALSE]

Init ==
    /\ conn = [g \in Guilds |-> "Idle"]
    /\ current = [g \in Guilds |-> None]
    /\ queue = [g \in Guilds |-> <<>>]
    /\ waiters = [g \in Guilds |-> <<>>]
    /\ hpc = [g \in Guilds |-> [t \in TrackIds |-> "none"]]
    /\ hwoke = [g \in Guilds |-> [t \in TrackIds |-> FALSE]]
    /\ guard = [g \in Guilds |-> None]
    /\ play = [p \in Plays |-> IdlePlay]
    /\ cmd = [c \in Cmds |-> IdleCmd]
    /\ nextId = [g \in Guilds |-> 1]
    /\ started = [g \in Guilds |-> <<>>]
    /\ tampered = [g \in Guilds |-> FALSE]
    /\ call = NoCall
    /\ err = NoError

DonePlay(out) == [IdlePlay EXCEPT !.pc = "done", !.out = out]
DoneCmd == [IdleCmd EXCEPT !.pc = "done"]

\* (variant) a guard that admits an invocation whoever holds the slot
GuardFreeAlways(g) == g \in Guilds

\* max_concurrency(1, BucketType.guild, wait=True): the guild's slot is free
GuardFree(g) == guard[g] = None

\* ensure_voice: what the before-invoke hook does for a command
EnsureVoice(hasClient, shouldConnect, inVoice, sameChannel, mayConnect, maySpeak) ==
    IF ~inVoice THEN "NotInVoice"
    ELSE IF ~hasClient
         THEN IF ~shouldConnect THEN "BotNotConnected"
              ELSE IF ~mayConnect THEN "NoConnectPermission"
              ELSE IF ~maySpeak THEN "NoSpeakPermission"
              ELSE "connect"
         ELSE IF ~sameChannel THEN "WrongChannel" ELSE "ok"

\* ctx.voice_client is set
HasClient(g) == conn[g] = "Connected"

\* the first k pending get_wait futures, the ones k calls of _wakeup_next resolve
Woken(g, k) ==
    LET m == IF k < Len(waiters[g]) THEN k ELSE Len(waiters[g])
    IN  Range(SubSeq(waiters[g], 1, m))

\* the listeners after `wake` had their futures resolved and the track-end
\* events of the tracks in `ended` were dispatched
Listeners(g, wake, ended) ==
    /\ hpc' = [hpc EXCEPT ![g] = [t \in TrackIds |->
                  IF t \in ended THEN "start"
                  ELSE IF t \in wake THEN "woken" ELSE @[t]]]
    /\ hwoke' = [hwoke EXCEPT ![g] = [t \in TrackIds |-> @[t] \/ t \in wake]]
    /\ waiters' = [waiters EXCEPT ![g] = SubSeq(@, Cardinality(wake) + 1, Len(@))]

\* the track whose end event player.play or player.stop makes the node send
Ending(g) == IF IsPlaying(g) THEN {current[g]} ELSE {}

\* (variant) playback that takes the newest track of the queue
StartNewest(g, q) ==
    /\ current' = [current EXCEPT ![g] = q[Len(q)]]
    /\ queue' = [queue EXCEPT ![g] = SubSeq(q, 1, Len(q) - 1)]
    /\ started' = [started EXCEPT ![g] = Append(@, q[Len(q)])]

\* await player.play(q.get()) on queue q, which is not empty
StartNext(g, q) ==
    /\ current' = [current EXCEPT ![g] = Head(q)]
    /\ queue' = [queue EXCEPT ![g] = Tail(q)]
    /\ started' = [started EXCEPT ![g] = Append(@, Head(q))]

\* ---------------------------------------------------------------- play
\* the play command is invoked in guild g and reaches the max_concurrency guard
PlayInvoke(p, g) ==
    /\ play[p].pc = "idle"
    /\ \A o \in Plays : o < p => play[o].pc # "idle"
    /\ conn[g] # "Disconnected"
    /\ play' = [play EXCEPT ![p] = [IdlePlay EXCEPT !.pc = "waiting", !.g = g]]
    /\ UNCHANGED <<conn, current, queue, waiters, hpc, hwoke, guard, nextId,
                   started, tampered>>

\* the guard admits the invocation: ensure_voice runs, then get_tracks is awaited
PlayBegin(p) ==
    LET g == play[p].g IN
    /\ play[p].pc = "waiting"
    /\ GuardFree(g)
    /\ \E inVoice, sameChannel, mayConnect, maySpeak \in BOOLEAN :
          LET r == EnsureVoice(HasClient(g), TRUE, inVoice, sameChannel,
                               mayConnect, maySpeak)
          IN  IF conn[g] = "Disconnected"
              THEN \* the call would open the guild's next session
                   /\ play' = [play EXCEPT ![p] = DonePlay("nextsession")]
                   /\ UNCHANGED <<conn, guard>>
              ELSE IF r \in {"connect", "ok"}
              THEN /\ play' = [play EXCEPT ![p].pc = "search",
                                           ![p].fresh = (r = "connect")]
                   /\ conn' = [conn EXCEPT ![g] = "Connected"]
                   /\ guard' = [guard EXCEPT ![g] = p]
              ELSE /\ play' = [play EXCEPT ![p] = DonePlay("usererror")]
                   /\ UNCHANGED <<conn, guard>>
    /\ UNCHANGED <<current, queue, waiters, hpc, hwoke, nextId, started, tampered>>

\* (variant) a last statement of play with the test inverted
PlayFinishInverted(p, g, q) ==
    IF ~IsPlaying(g) \/ q = <<>>
    THEN /\ play' = [play EXCEPT ![p] = DonePlay("ok")]
         /\ queue' = [queue EXCEPT ![g] = q]
         /\ UNCHANGED <<current, started>>
    ELSE /\ play' = [play EXCEPT ![p] = DonePlay("ok")]
         /\ StartNext(g, q)

\* the last statement of play: if not player.is_playing(): play(queue.get())
PlayFinish(p, g, q) ==
    IF IsPlaying(g)
    THEN /\ play' = [play EXCEPT ![p] = DonePlay("ok")]
         /\ queue' = [queue EXCEPT ![g] = q]
         /\ UNCHANGED <<current, started>>
    ELSE IF q = <<>>
    THEN /\ play' = [play EXCEPT ![p] = DonePlay("queueempty")]
         /\ queue' = [queue EXCEPT ![g] = q]
         /\ UNCHANGED <<current, started>>
    ELSE /\ play' = [play EXCEPT ![p] = DonePlay("ok")]
         /\ StartNext(g, q)

\* get_tracks returns a playlist of n tracks: all are put, the reply is awaited
PlayPlaylist(p, n) ==
    LET g == play[p].g IN
    /\ play[p].pc = "search"
    /\ queue' = [queue EXCEPT ![g] = @ \o IdSeq(nextId[g], n)]
    /\ nextId' = [nextId EXCEPT ![g] = @ + n]
    /\ Listeners(g, Woken(g, n), {})
    /\ play' = [play EXCEPT ![p].pc = "send", ![p].first = nextId[g], ![p].n = n]
    /\ UNCHANGED <<conn, current, guard, started, tampered>>

\* get_tracks returns a list of tracks: the first is put; the reply is awaited
\* only when a track is playing, otherwise the track is started at once
PlaySingle(p) ==
    LET g == play[p].g
        q == Append(queue[g], nextId[g])
    IN
    /\ play[p].pc = "search"
    /\ nextId' = [nextId EXCEPT ![g] = @ + 1]
    /\ Listeners(g, Woken(g, 1), {})
    /\ IF IsPlaying(g)
       THEN /\ play' = [play EXCEPT ![p].pc = "send", ![p].first = nextId[g],
                                    ![p].n = 1]
            /\ queue' = [queue EXCEPT ![g] = q]
            /\ UNCHANGED <<current, started, guard>>
       ELSE /\ PlayFinish(p, g, q)
            /\ guard' = [guard EXCEPT ![g] = None]
    /\ UNCHANGED <<conn, tampered>>

\* get_tracks finds nothing or raises: the command ends in an exception
PlaySearchFails(p) ==
    LET g == play[p].g IN
    /\ play[p].pc = "search"
    /\ play' = [play EXCEPT ![p] = DonePlay("exception")]
    /\ guard' = [guard EXCEPT ![g] = None]
    /\ UNCHANGED <<conn, current, queue, waiters, hpc, hwoke, nextId, started,
                   tampered>>

\* ctx.send returns: the last statement of play runs and the guard is released
PlaySendDone(p) ==
    LET g == play[p].g IN
    /\ play[p].pc = "send"
    /\ PlayFinish(p, g, queue[g])
    /\ guard' = [guard EXCEPT ![g] = None]
    /\ UNCHANGED <<conn, waiters, hpc, hwoke, nextId, tampered>>

\* ---------------------------------------------------------------- node events
\* the current track plays to its end: the node sends its track-end event
TrackFinish(g) ==
    /\ IsPlaying(g)
    /\ current' = [current EXCEPT ![g] = None]
    /\ Listeners(g, {}, {current[g]})
    /\ UNCHANGED <<conn, queue, guard, play, cmd, nextId, started, tampered>>

\* on_pomice_track_end runs, or resumes after its future was resolved:
\* get_wait loops while the queue is empty, then the track it got is played
TrackEndRun(g, t) ==
    /\ hpc[g][t] \in {"start", "woken"}
    /\ IF queue[g] = <<>>
       THEN /\ hpc' = [hpc EXCEPT ![g][t] = "waiting"]
            /\ waiters' = [waiters EXCEPT ![g] = Append(@, t)]
            /\ UNCHANGED <<current, queue, started, hwoke>>
       ELSE /\ StartNext(g, queue[g])
            /\ hpc' = [hpc EXCEPT ![g] = [u \in TrackIds |->
                          IF u = t THEN "played"
                          ELSE IF u \in Ending(g) THEN "start" ELSE @[u]]]
            /\ UNCHANGED <<waiters, hwoke>>
    /\ UNCHANGED <<conn, guard, play, cmd, nextId, tampered>>

\* (variant) a listener that swallows the timeout and leaves the player connected
TrackEndTimeoutStays(g, t) ==
    /\ hpc[g][t] \in {"waiting", "woken"}
    /\ hpc' = [hpc EXCEPT ![g][t] = "expired"]
    /\ waiters' = [waiters EXCEPT ![g] = SelectSeq(@, LAMBDA u : u # t)]
    /\ UNCHANGED <<conn, hwoke, current, queue, guard, play, cmd, nextId, started,
                   tampered>>

\* the timeout fires while the listener is suspended in get_wait: the future is
\* dropped (a wake-up it had consumed is passed on) and the player disconnected
TrackEndTimeout(g, t) ==
    /\ hpc[g][t] \in {"waiting", "woken"}
    /\ LET rest == SelectSeq(waiters[g], LAMBDA u : u # t)
           pass == IF hpc[g][t] = "woken" /\ queue[g] # <<>> /\ rest # <<>>
                   THEN {Head(rest)} ELSE {}
       IN  /\ hpc' = [hpc EXCEPT ![g] = [u \in TrackIds |->
                         IF u = t THEN "expired"
                         ELSE IF u \in pass THEN "woken" ELSE @[u]]]
           /\ hwoke' = [hwoke EXCEPT ![g] = [u \in TrackIds |-> @[u] \/ u \in pass]]
           /\ waiters' = [waiters EXCEPT ![g] =
                             SelectSeq(rest, LAMBDA u : u \notin pass)]
    /\ conn' = [conn EXCEPT ![g] = "Disconnected"]
    /\ UNCHANGED <<current, queue, guard, play, cmd, nextId, started, tampered>>


\* ---------------------------------------------------------------- other commands
\* command slot c is free and ensure_voice lets a command other than play pass
CmdAdmitted(c, g) ==
    /\ cmd[c].pc = "idle"
    /\ \A o \in Cmds : o < c => cmd[o].pc # "idle"
    /\ \E inVoice, sameChannel \in BOOLEAN :
          EnsureVoice(HasClient(g), FALSE, inVoice, sameChannel, TRUE, TRUE) = "ok"

\* the command replies, naming the track or the amount `item` if any, and awaits
\* ctx.send
Replying(c, g, kind, reply, item) ==
    cmd' = [cmd EXCEPT ![c] = [pc |-> "send", g |-> g, kind |-> kind,
                               reply |-> reply, item |-> item]]

\* (variant) the amount of clear taken after queue.clear()
ClearAmountAfter(q) == Len(SubSeq(q, 1, 0))

\* amount = len(player.queue)
ClearAmount(q) == Len(q)

\* clear: an empty queue is only reported, otherwise queue.clear()
CmdClear(c, g) ==
    /\ CmdAdmitted(c, g)
    /\ IF queue[g] = <<>>
       THEN /\ Replying(c, g, "clear", "NothingToClear", None)
            /\ UNCHANGED <<queue, tampered>>
       ELSE /\ Replying(c, g, "clear", "Cleared", ClearAmount(queue[g]))
            /\ queue' = [queue EXCEPT ![g] = <<>>]
            /\ tampered' = [tampered EXCEPT ![g] = TRUE]
    /\ UNCHANGED <<conn, current, waiters, hpc, hwoke, guard, play, nextId, started>>

\* remove(index)
CmdRemove(c, g, index) ==
    /\ CmdAdmitted(c, g)
    /\ IF queue[g] = <<>>
       THEN /\ Replying(c, g, "remove", "QueueEmpty", None)
            /\ UNCHANGED <<queue, tampered>>
       ELSE IF RemoveRejects(queue[g], index)
       THEN /\ Replying(c, g, "remove", "InvalidTrackNumber", None)
            /\ UNCHANGED <<queue, tampered>>
       ELSE /\ Replying(c, g, "remove", "Removed", GetItem(queue[g], index - 1))
            /\ queue' = [queue EXCEPT ![g] = RemoveQueue(@, index)]
            /\ tampered' = [tampered EXCEPT ![g] = TRUE]
    /\ UNCHANGED <<conn, current, waiters, hpc, hwoke, guard, play, nextId, started>>

\* move(from, to): an IndexError ends the command without a reply
CmdMove(c, g, from, to) ==
    /\ CmdAdmitted(c, g)
    /\ IF ~MoveAccepts(queue[g], from, to)
       THEN /\ cmd' = [cmd EXCEPT ![c] = DoneCmd]
            /\ UNCHANGED <<queue, tampered, waiters, hpc, hwoke>>
       ELSE /\ Replying(c, g, "move", "Moved", GetItem(queue[g], from - 1))
            /\ queue' = [queue EXCEPT ![g] = MoveQueue(@, from, to)]
            /\ tampered' = [tampered EXCEPT ![g] = TRUE]
            /\ Listeners(g, Woken(g, 1), {})
    /\ UNCHANGED <<conn, current, guard, play, nextId, started>>

\* queue.clear(); player.stop(); player.disconnect(force=True)
Teardown(g) ==
    /\ queue' = [queue EXCEPT ![g] = <<>>]
    /\ tampered' = [tampered EXCEPT ![g] = @ \/ queue[g] # <<>>]
    /\ current' = [current EXCEPT ![g] = None]
    /\ Listeners(g, {}, Ending(g))
    /\ conn' = [conn EXCEPT ![g] = "Disconnected"]

\* disconnect
CmdDisconnect(c, g) ==
    /\ CmdAdmitted(c, g)
    /\ Teardown(g)
    /\ Replying(c, g, "disconnect", "Disconnected", None)
    /\ UNCHANGED <<guard, play, nextId, started>>

\* player.source, the track the player holds
Source(g) == current[g]

\* `player.is_playing` as skip tests it: the bound method itself, which is true
SkipSeesPlaying(g) == g \in Guilds

\* skip: the reply names player.source and is awaited before player.stop();
\* with no source the reply's title raises AttributeError
CmdSkip(c, g) ==
    /\ CmdAdmitted(c, g)
    /\ IF ~SkipSeesPlaying(g)
       THEN Replying(c, g, "skip", "NothingPlaying", None)
       ELSE IF Source(g) = None
       THEN Replying(c, g, "skip", "Exception", None)
       ELSE Replying(c, g, "skip", "Skipped", Source(g))
    /\ UNCHANGED <<conn, current, queue, waiters, hpc, hwoke, guard, play, nextId,
                   started, tampered>>

\* skip after its reply was sent: player.stop()
CmdSkipStop(c) ==
    LET g == cmd[c].g
    IN  /\ cmd[c].pc = "send" /\ cmd[c].kind = "skip" /\ cmd[c].reply = "Skipped"
        /\ cmd' = [cmd EXCEPT ![c] = DoneCmd]
        /\ current' = [current EXCEPT ![g] = None]
        /\ Listeners(g, {}, Ending(g))
        /\ UNCHANGED <<conn, queue, guard, play, nextId, started, tampered>>

\* cog_before_invoke: ensure_voice runs for a command sent in a guild only, and
\* the hook's return value does not stop the command
BeforeInvoke(inGuild, verdict) == IF inGuild THEN verdict ELSE "ok"

CmdKinds == {"disconnect", "skip", "clear", "remove", "move"}

\* a command other than play that ensure_voice ends with a UserError
CmdRejected(c, g, kind) ==
    /\ cmd[c].pc = "idle"
    /\ \A o \in Cmds : o < c => cmd[o].pc # "idle"
    /\ \E inVoice, sameChannel \in BOOLEAN :
          BeforeInvoke(TRUE, EnsureVoice(HasClient(g), FALSE, inVoice, sameChannel,
                                         TRUE, TRUE)) \notin {"ok", "connect"}
    /\ Replying(c, g, kind, "UserError", None)
    /\ UNCHANGED <<conn, current, queue, waiters, hpc, hwoke, guard, play, nextId,
                   started, tampered>>

\* a command other than play sent in a direct message: nothing is validated,
\* ctx.voice_client is None and the handler's first use of it raises
\* AttributeError
CmdDirect(c, kind) ==
    /\ cmd[c].pc = "idle"
    /\ \A o \in Cmds : o < c => cmd[o].pc # "idle"
    /\ BeforeInvoke(FALSE, EnsureVoice(FALSE, FALSE, FALSE, FALSE, TRUE, TRUE)) = "ok"
    /\ Replying(c, None, kind, "Exception", None)
    /\ UNCHANGED <<conn, current, queue, waiters, hpc, hwoke, guard, play, nextId,
                   started, tampered>>

\* ctx.send returns and the command ends
CmdSendDone(c) ==
    /\ cmd[c].pc = "send"
    /\ ~(cmd[c].kind = "skip" /\ cmd[c].reply = "Skipped")
    /\ cmd' = [cmd EXCEPT ![c] = DoneCmd]
    /\ UNCHANGED <<conn, current, queue, waiters, hpc, hwoke, guard, play, nextId,
                   started, tampered>>

\* on_voice_state_update: the bot's own voice state lost its channel while the
\* guild still has a voice client
ForcedRemoval(g) ==
    /\ HasClient(g)
    /\ Teardown(g)
    /\ UNCHANGED <<guard, play, cmd, nextId, started>>

\* ---------------------------------------------------------------- specifications
\* a queue command's call as its caller sees it
Observed(c, g, op, a, b) ==
    /\ call' = [op |-> op, g |-> g, a |-> a, b |-> b, before |-> queue[g],
                reply |-> cmd'[c].reply, item |-> cmd'[c].item]
    /\ UNCHANGED err

PlayRun ==
    \/ \E p \in Plays : PlayBegin(p)
    \/ \E p \in Plays, n \in 0..MaxPlaylist : PlayPlaylist(p, n)
    \/ \E p \in Plays : PlaySingle(p)
    \/ \E p \in Plays : PlaySearchFails(p)
    \/ \E p \in Plays : PlaySendDone(p)

NodeStep ==
    \/ \E g \in Guilds : TrackFinish(g)
    \/ \E g \in Guilds, t \in TrackIds : TrackEndRun(g, t)
    \/ \E g \in Guilds, t \in TrackIds : TrackEndTimeout(g, t)

QueueCmd ==
    \/ \E c \in Cmds, g \in Guilds :
          CmdClear(c, g) /\ Observed(c, g, "clear", 0, 0)
    \/ \E c \in Cmds, g \in Guilds, index \in Positions :
          CmdRemove(c, g, index) /\ Observed(c, g, "remove", index, 0)
    \/ \E c \in Cmds, g \in Guilds, from, to \in Positions :
          CmdMove(c, g, from, to) /\ Observed(c, g, "move", from, to)
    \/ \E c \in Cmds : CmdSendDone(c) /\ UNCHANGED <<call, err>>

\* The session of one guild: every command and event that acts on it (queue and
\* nowplaying only read).  Positions are not kept.
Next ==
    \/ \E p \in Plays : PlayInvoke(p, 1) /\ UNCHANGED <<cmd, call, err>>
    \/ PlayRun /\ UNCHANGED <<cmd, call, err>>
    \/ NodeStep /\ UNCHANGED <<call, err>>
    \/ \E c \in Cmds, g \in Guilds : CmdClear(c, g) /\ UNCHANGED <<call, err>>
    \/ \E c \in Cmds, g \in Guilds, index \in Positions :
          CmdRemove(c, g, index) /\ UNCHANGED <<call, err>>
    \/ \E c \in Cmds, g \in Guilds, from, to \in Positions :
          CmdMove(c, g, from, to) /\ UNCHANGED <<call, err>>
    \/ \E c \in Cmds, g \in Guilds : CmdDisconnect(c, g) /\ UNCHANGED <<call, err>>
    \/ \E c \in Cmds, g \in Guilds : CmdSkip(c, g) /\ UNCHANGED <<call, err>>
    \/ \E c \in Cmds : CmdSkipStop(c) /\ UNCHANGED <<call, err>>
    \/ \E c \in Cmds, kind \in CmdKinds : CmdRejected(c, 1, kind) /\ UNCHANGED <<call, err>>
    \/ \E c \in Cmds, kind \in CmdKinds : CmdDirect(c, kind) /\ UNCHANGED <<call, err>>
    \/ \E c \in Cmds : CmdSendDone(c) /\ UNCHANGED <<call, err>>
    \/ \E g \in Guilds : ForcedRemoval(g) /\ UNCHANGED <<call, err>>

Spec == Init /\ [][Next]_vars

\* The session with the timer of the track-end listener sure to fire.
FairSpec ==
    /\ Spec
    /\ \A g \in Guilds, t \in TrackIds : WF_vars(TrackEndTimeout(g, t) /\ UNCHANGED <<call, err>>)

\* The queue commands on every queue of up to MaxLen titles.
Titles == 1..NumTitles
Queues == UNION {[1..n -> Titles] : n \in 0..MaxLen}

QueueInit ==
    /\ conn = [g \in Guilds |-> IF g = 1 THEN "Connected" ELSE "Idle"]
    /\ current = [g \in Guilds |-> None]
    /\ queue \in {[g \in Guilds |-> IF g = 1 THEN q ELSE <<>>] : q \in Queues}
    /\ waiters = [g \in Guilds |-> <<>>]
    /\ hpc = [g \in Guilds |-> [t \in TrackIds |-> "none"]]
    /\ hwoke = [g \in Guilds |-> [t \in TrackIds |-> FALSE]]
    /\ guard = [g \in Guilds |-> None]
    /\ play = [p \in Plays |-> IdlePlay]
    /\ cmd = [c \in Cmds |-> IdleCmd]
    /\ nextId = [g \in Guilds |-> 1]
    /\ started = [g \in Guilds |-> <<>>]
    /\ tampered = [g \in Guilds |-> FALSE]
    /\ call = NoCall
    /\ err = NoError

QueueNext == QueueCmd /\ UNCHANGED play

QueueSpec == QueueInit /\ [][QueueNext]_vars

\* The play guard over all guilds: play invocations only, each sure to go on.
GuardNext ==
    \/ \E p \in Plays, g \in Guilds : PlayInvoke(p, g) /\ UNCHANGED <<cmd, call, err>>
    \/ PlayRun /\ UNCHANGED <<cmd, call, err>>

GuardSpec ==
    /\ Init
    /\ [][GuardNext]_vars
    /\ WF_vars(PlayRun /\ UNCHANGED <<cmd, call, err>>)

\* Two move commands in a row on a queue of distinct tracks; `call` keeps what
\* each of them found and left.
TripCmds == 1..2

TripInit ==
    /\ conn = [g \in Guilds |-> IF g = 1 THEN "Connected" ELSE "Idle"]
    /\ current = [g \in Guilds |-> None]
    /\ queue \in {[g \in Guilds |-> IF g = 1 THEN IdSeq(1, n) ELSE <<>>] : n \in 0..MaxLen}
    /\ waiters = [g \in Guilds |-> <<>>]
    /\ hpc = [g \in Guilds |-> [t \in TrackIds |-> "none"]]
    /\ hwoke = [g \in Guilds |-> [t \in TrackIds |-> FALSE]]
    /\ guard = [g \in Guilds |-> None]
    /\ play = [p \in Plays |-> IdlePlay]
    /\ cmd = [c \in TripCmds |-> IdleCmd]
    /\ nextId = [g \in Guilds |-> 1]
    /\ started = [g \in Guilds |-> <<>>]
    /\ tampered = [g \in Guilds |-> FALSE]
    /\ call = <<>>
    /\ err = NoError

TripNext ==
    \/ \E c \in TripCmds, g \in Guilds, from, to \in Positions :
          /\ CmdMove(c, g, from, to)
          /\ call' = Append(call, [a |-> from, b |-> to, before |-> queue[g],
                                   after |-> queue'[g]])
          /\ UNCHANGED <<play, err>>
    \/ \E c \in TripCmds : CmdSendDone(c) /\ UNCHANGED <<play, call, err>>

TripSpec == TripInit /\ [][TripNext]_vars

\* ---------------------------------------------------------------- command errors
\* the errors discord.py hands to cog_command_error: the UserError of
\* ensure_voice, an exception raised by a handler (wrapped), an argument that
\* does not convert to int, an argument that is missing
ErrorKinds == {"UserError", "CommandInvokeError", "BadArgument",
               "MissingRequiredArgument"}

\* lengths of the formatted traceback around the limit
TraceLens == (TraceLimit - TraceSlack)..(TraceLimit + TraceSlack)

\* len(full_traceback) > 4000: the traceback goes into traceback.txt
AttachesFile(trace) == trace > TraceLimit

\* cog_command_error: the messages sent to the caller and to the log channel;
\* outside a guild ctx.guild.name raises before anything is logged
CogCommandError(kind, trace, inGuild) ==
    IF kind = "UserError"
    THEN [caller |-> 1, operator |-> 0, inline |-> FALSE, file |-> FALSE]
    ELSE IF kind = "CommandInvokeError"
    THEN IF ~inGuild
         THEN [caller |-> 1, operator |-> 0, inline |-> FALSE, file |-> FALSE]
         ELSE [caller |-> 1, operator |-> 1, inline |-> trace <= TraceLimit,
               file |-> AttachesFile(trace)]
    ELSE [caller |-> 0, operator |-> 0, inline |-> FALSE, file |-> FALSE]

HandleError ==
    LET sent == CogCommandError(err.kind, err.trace, err.inGuild) IN
    /\ err.kind # "none" /\ ~err.handled
    /\ err' = [err EXCEPT !.handled = TRUE, !.caller = sent.caller,
                          !.operator = sent.operator, !.inline = sent.inline,
                          !.file = sent.file]
    /\ UNCHANGED <<conn, current, queue, waiters, hpc, hwoke, guard, play, cmd,
                   nextId, started, tampered, call>>

ErrorInit ==
    /\ conn = [g \in Guilds |-> "Idle"]
    /\ current = [g \in Guilds |-> None]
    /\ queue = [g \in Guilds |-> <<>>]
    /\ waiters = [g \in Guilds |-> <<>>]
    /\ hpc = [g \in Guilds |-> [t \in TrackIds |-> "none"]]
    /\ hwoke = [g \in Guilds |-> [t \in TrackIds |-> FALSE]]
    /\ guard = [g \in Guilds |-> None]
    /\ play = [p \in Plays |-> IdlePlay]
    /\ cmd = [c \in Cmds |-> IdleCmd]
    /\ nextId = [g \in Guilds |-> 1]
    /\ started = [g \in Guilds |-> <<>>]
    /\ tampered = [g \in Guilds |-> FALSE]
    /\ call = NoCall
    /\ err \in {[NoError EXCEPT !.kind = k, !.trace = n, !.inGuild = d] :
                   k \in ErrorKinds, n \in TraceLens, d \in BOOLEAN}

ErrorSpec == ErrorInit /\ [][HandleError]_vars

\* ---------------------------------------------------------------- queue commands
\* position i is out of the 1-based range of queue q
OutOfRange(q, i) == i < 1 \/ i > Len(q)

\* queue q without the element at 1-based position i
Without(q, i) == SubSeq(q, 1, i - 1) \o SubSeq(q, i + 1, Len(q))

\* C7: a move with `from` or `to` below 1 or above the queue's length (zero and
\* negative positions included) leaves the queue as it was.
MoveOutOfRangeKeepsQueue ==
    (call.op = "move" /\ (OutOfRange(call.before, call.a) \/ OutOfRange(call.before, call.b)))
        => queue[call.g] = call.before

\* C8 as stated: a remove with index below 1 or above the length is answered with
\* the invalid-track-number message and leaves the queue as it was.
RemoveOutOfRangeSaysInvalid ==
    (call.op = "remove" /\ OutOfRange(call.before, call.a))
        => (call.reply = "InvalidTrackNumber" /\ queue[call.g] = call.before)

\* C8 amended: a remove with index below 1 or above the length leaves the queue
\* as it was and is answered with a message: the invalid-track-number message on
\* a queue that holds tracks, the queue-is-empty message on an empty queue.
RemoveOutOfRangeRejected ==
    (call.op = "remove" /\ OutOfRange(call.before, call.a))
        => /\ queue[call.g] = call.before
           /\ call.reply = IF call.before = <<>> THEN "QueueEmpty"
                           ELSE "InvalidTrackNumber"

RemoveOutOfRangeWitness ==
    /\ call.op = "remove" /\ call.a = 0 /\ call.before = <<1, 2>>
    /\ call.reply = "InvalidTrackNumber" /\ queue[1] = <<1, 2>>

\* C9: a remove with 1 <= index <= length deletes exactly the element at that
\* position: the others keep their order, the length drops by one, and the
\* track named in the reply is the one that was there.
RemoveInRangeRemovesThat ==
    (call.op = "remove" /\ ~OutOfRange(call.before, call.a))
        => /\ queue[call.g] = Without(call.before, call.a)
           /\ Len(queue[call.g]) = Len(call.before) - 1
           /\ call.reply = "Removed"
           /\ call.item = call.before[call.a]

RemoveInRangeWitness ==
    /\ call.op = "remove" /\ call.a = 2 /\ call.before = <<1, 2, 1>>
    /\ call.reply = "Removed" /\ call.item = 2 /\ queue[1] = <<1, 1>>

\* C10: a move with both positions in 1..length leaves the element that was at
\* `from` at position `to`; the length is kept and the other elements keep their
\* relative order (so the multiset of elements is kept).
MoveInRangePlacesAtTo ==
    (call.op = "move" /\ ~OutOfRange(call.before, call.a)
                      /\ ~OutOfRange(call.before, call.b))
        => /\ Len(queue[call.g]) = Len(call.before)
           /\ queue[call.g][call.b] = call.before[call.a]
           /\ Without(queue[call.g], call.b) = Without(call.before, call.a)

MoveInRangeWitness ==
    /\ call.op = "move" /\ call.a = 1 /\ call.b = 3 /\ call.before = <<1, 2, 2>>
    /\ queue[1] = <<2, 2, 1>>

\* ---------------------------------------------------------------- the session
\* the plays admitted by the guard of guild g and not yet finished
InFlight(g) == {p \in Plays : play[p].pc \in {"search", "send"} /\ play[p].g = g}

\* C1: while no element left the queue other than for playback, the tracks of a
\* session are started in the order they were enqueued, each once and none
\* passed over; and every track that is started is the one at the front of the
\* queue, which then loses it.
PlaysInEnqueueOrder ==
    /\ [](\A g \in Guilds :
            ~tampered[g] => started[g] = IdSeq(1, Len(started[g])))
    /\ [][\A g \in Guilds :
            started'[g] # started[g] =>
               /\ started'[g] = Append(started[g], current'[g])
               /\ current'[g] \notin Range(queue'[g])
               /\ queue[g] # <<>> =>
                     /\ current'[g] = Head(queue[g])
                     /\ SubSeq(queue'[g], 1, Len(queue[g]) - 1) = Tail(queue[g])]_vars

PlaysInEnqueueOrderWitness ==
    /\ ~tampered[1] /\ started[1] = <<1, 2, 3>>
    /\ hpc[1][1] = "played" /\ hpc[1][2] = "played"

\* C2: a play call that opens the session (caller in a voice channel, bot allowed
\* to connect and speak) and resolves to n >= 1 tracks, with no other command or
\* event acting on the session meanwhile, ends with the session connected, the
\* first track current and the other n-1 tracks queued in their order.
FirstPlayStartsFirstTrack ==
    [][\A p \in Plays :
         LET g == play[p].g
             n == nextId'[g] - 1
         IN  (/\ play[p].pc \in {"search", "send"} /\ play'[p].pc = "done"
              /\ play[p].fresh
              /\ conn[g] = "Connected"
              /\ \A c \in Cmds : cmd[c].pc = "idle"
              /\ n >= 1)
             => /\ play'[p].out = "ok"
                /\ conn'[g] = "Connected"
                /\ current'[g] = 1
                /\ queue'[g] = IdSeq(2, n - 1)]_vars

FirstPlayWitness ==
    /\ play[1].pc = "done" /\ play[1].out = "ok" /\ play[2].pc = "idle"
    /\ \A c \in Cmds : cmd[c].pc = "idle"
    /\ conn[1] = "Connected" /\ current[1] = 1 /\ queue[1] = <<2, 3>>
    /\ started[1] = <<1>> /\ nextId[1] = 4

\* C3: a wait that was answered by an enqueue is over: its listener does not
\* wait on and then expire, disconnecting the session.
AnsweredWaitNeverExpires ==
    [][\A g \in Guilds, t \in TrackIds :
         (hwoke[g][t] /\ hpc[g][t] = "waiting") => hpc'[g][t] # "expired"]_vars

\* C4: a listener that waits on an empty queue and gets no track sees its
\* timer fire, and the session is disconnected.
IdleWaitEndsInDisconnect ==
    \A g \in Guilds, t \in TrackIds :
        (hpc[g][t] = "waiting" /\ ~hwoke[g][t])
            ~> (conn[g] = "Disconnected" \/ hwoke[g][t])

IdleWaitWitness ==
    /\ hpc[1][1] = "expired" /\ ~hwoke[1][1] /\ conn[1] = "Disconnected"
    /\ started[1] = <<1>> /\ nextId[1] = 2 /\ current[1] = None
    /\ \A c \in Cmds : cmd[c].pc = "idle"

\* C5: while a play call that has enqueued tracks is suspended before its last
\* statement, nothing else changes the session's queue or player state.
NoInterleavedMutation ==
    [][\A p \in Plays :
         (play[p].pc = "send" /\ play[p].n > 0 /\ play'[p] = play[p])
            => LET g == play[p].g
               IN  /\ queue'[g] = queue[g]
                   /\ current'[g] = current[g]
                   /\ conn'[g] = conn[g]]_vars

\* C6: a guild never has two play invocations in flight; an invocation held back
\* by the guard is run later, not dropped; and an invocation is held back by its
\* own guild's slot only, so that other guilds' invocations run beside it.
PlayGuard ==
    /\ [](\A g \in Guilds : Cardinality(InFlight(g)) <= 1)
    /\ [](\A p \in Plays :
            (play[p].pc = "waiting" /\ InFlight(play[p].g) = {})
               => ENABLED (PlayBegin(p) /\ UNCHANGED <<cmd, call, err>>))
    /\ \A p \in Plays :
          (play[p].pc = "waiting") ~> (play[p].pc \in {"search", "send", "done"})

PlayGuardWitness ==
    /\ InFlight(1) # {} /\ InFlight(2) # {}

\* ---------------------------------------------------------------- move round trip
\* the second move took back what the first one did: move(a, b), then move(b, a)
MovedBack ==
    /\ Len(call) = 2
    /\ call[2].a = call[1].b /\ call[2].b = call[1].a
    /\ ~OutOfRange(call[1].before, call[1].a)
    /\ ~OutOfRange(call[1].before, call[1].b)

\* C11 as stated: move(a, b) followed by move(b, a) restores the queue only
\* when no other element lies between the positions a and b.
MoveBackRestoresOnlyAdjacent ==
    (MovedBack /\ call[2].after = call[1].before)
        => (call[1].a - call[1].b) \in {-1, 0, 1}

\* C11 amended: on [A, B, C], move(1, 3) gives [B, C, A] and move(3, 1) gives
\* [A, B, C] again; and for any positions a and b in 1..length, move(a, b)
\* followed by move(b, a) restores the queue, whatever lies between a and b.
MoveBackRestores ==
    /\ MovedBack => call[2].after = call[1].before
    /\ (Len(call) >= 1 /\ call[1].before = <<1, 2, 3>> /\ call[1].a = 1 /\ call[1].b = 3)
          => call[1].after = <<2, 3, 1>>

MoveBackWitness ==
    /\ Len(call) = 2
    /\ call[1] = [a |-> 1, b |-> 3, before |-> <<1, 2, 3>>, after |-> <<2, 3, 1>>]
    /\ call[2] = [a |-> 3, b |-> 1, before |-> <<2, 3, 1>>, after |-> <<1, 2, 3>>]
    /\ queue[1] = <<1, 2, 3>>

\* ---------------------------------------------------------------- skip
\* C12: skip on a connected session with nothing playing is answered with the
\* nothing-is-playing message and changes nothing: queue, current track and
\* connection stay as they were and no stop goes to the node.
SkipIdleSaysNothingPlaying ==
    [][\A c \in Cmds, g \in Guilds :
         (/\ cmd[c].pc = "idle" /\ cmd'[c].kind = "skip" /\ cmd'[c].g = g
          /\ cmd'[c].reply # "UserError"
          /\ conn[g] = "Connected" /\ current[g] = None)
            => /\ cmd'[c].reply = "NothingPlaying"
               /\ queue'[g] = queue[g]
               /\ current'[g] = current[g]
               /\ conn'[g] = conn[g]]_vars

\* ---------------------------------------------------------------- teardown
\* C13: when a disconnect command completes, and when a forced removal has
\* run (the session loses its connection with no command and no listener
\* acting), the session is disconnected, its queue is empty and nothing plays.
TeardownLeavesNothing ==
    [][\A g \in Guilds :
         (\/ \E c \in Cmds : /\ cmd[c].pc = "send" /\ cmd[c].kind = "disconnect"
                             /\ cmd[c].reply = "Disconnected" /\ cmd[c].g = g
                             /\ cmd'[c].pc = "done"
          \/ /\ conn[g] = "Connected" /\ conn'[g] = "Disconnected"
             /\ cmd' = cmd /\ hpc'[g] = hpc[g])
            => /\ conn'[g] = "Disconnected"
               /\ queue'[g] = <<>>
               /\ ~(conn'[g] = "Connected" /\ current'[g] # None)]_vars

\* ---------------------------------------------------------------- validation
\* C14: a command other than play whose caller is in no voice channel of a
\* session of the bot (the bot has no session there, or the command comes
\* from outside any guild) ends in a UserError and changes nothing.
UnvalidatedEndsInUserError ==
    [][\A c \in Cmds :
         (/\ cmd[c].pc = "idle" /\ cmd'[c].pc = "send"
          /\ (cmd'[c].g = None \/ conn[cmd'[c].g] # "Connected"))
            => /\ cmd'[c].reply = "UserError"
               /\ queue' = queue /\ current' = current /\ conn' = conn]_vars

\* ---------------------------------------------------------------- clear
\* C15: clear leaves the queue empty and reports the number of tracks it
\* removed, the length before; the current track and the connection stay as
\* they were.  On an empty queue it changes nothing and answers with a plain
\* message, not an error.
ClearEmptiesAndCounts ==
    [][\A c \in Cmds, g \in Guilds :
         (cmd[c].pc = "idle" /\ cmd'[c].kind = "clear" /\ cmd'[c].g = g
          /\ cmd'[c].reply # "UserError")
            => /\ queue'[g] = <<>>
               /\ current' = current /\ conn' = conn /\ started' = started
               /\ waiters' = waiters /\ hpc' = hpc
               /\ IF queue[g] = <<>>
                  THEN cmd'[c].reply = "NothingToClear" /\ queue' = queue
                  ELSE cmd'[c].reply = "Cleared" /\ cmd'[c].item = Len(queue[g])]_vars

ClearWitness ==
    /\ cmd[1].pc = "send" /\ cmd[1].kind = "clear" /\ cmd[1].reply = "Cleared"
    /\ cmd[1].item = 2 /\ queue[1] = <<>>
    /\ conn[1] = "Connected" /\ current[1] = 1 /\ started[1] = <<1>>

\* ---------------------------------------------------------------- error handling
\* C16: every command error handed to the handler is rendered to the caller,
\* and one that is not a UserError is also sent once to the log channel, the
\* traceback inside the message up to the limit and as a file beyond it.
NoErrorDropped ==
    err.handled =>
        \/ err.kind = "UserError" /\ err.caller = 1
        \/ /\ err.kind # "UserError"
           /\ err.caller = 1 /\ err.operator = 1
           /\ err.inline = (err.trace <= TraceLimit)
           /\ err.file = (err.trace > TraceLimit)

\* ---------------------------------------------------------------- the session, again
\* C17: the timeout of a track-end listener disconnects the session only when
\* nothing plays.
TimeoutOnlyWhenNotPlaying ==
    [][\A g \in Guilds, t \in TrackIds :
         (hpc[g][t] # "expired" /\ hpc'[g][t] = "expired") => ~IsPlaying(g)]_vars

\* C18: once a session is disconnected no track is put into its queue and no
\* playback is started on it.
DisconnectedIsTerminal ==
    [][\A g \in Guilds :
         conn[g] = "Disconnected"
            => (nextId'[g] = nextId[g] /\ started'[g] = started[g])]_vars

\* C19: playback of a track is started only when no track is playing.
StartsOnlyWhenNotPlaying ==
    [][\A g \in Guilds : started'[g] # started[g] => ~IsPlaying(g)]_vars

\* C20: no play call ends in the QueueEmpty of its last queue.get().
PlayNeverDequeuesEmpty ==
    \A p \in Plays : play[p].out # "queueempty"

====
